---- MODULE Spec2Model ----
(***************************************************************************)
(* KineticAuditor (src/kinetic_swift/obj/auditor.py): the sweep loop, the  *)
(* per-device enumeration and the streaming verification of one object.    *)
(* The process is single threaded; pc is the position of that one thread.  *)
(* The collaborators (ring lookup, connection, diskfile, recon sink) are   *)
(* not part of the module: each call to one of them is a nondeterministic  *)
(* choice among returning a value from a small set and raising.            *)
(***************************************************************************)
EXTENDS Integers, Sequences, FiniteSets, TLC

\* ------------------------------------------------------------------ bounds
\* audit_object calls, chunks read and sweeps begun over one run.
MaxAudits == 2
MaxReads == 2
MaxSweeps == 2
\* Chunks read in the specification that keeps the time.
MaxTimedReads == 4

\* --------------------------------------------------------------- constants
Interval == 30

\* Python's None, as a value comparable with the header strings (character
\* sequences) it stands in for.
NoneValue == <<"None">>
DeviceNames == {"d1", "d2"}
Policies == {0, 1}
Bytes == {"a", "b"}

\* Exception classes a collaborator raises (line 28, and any other).
ExcKinds == {"DiskFileNotExist", "DiskFileDeviceUnavailable", "Exception"}

StatKeys == {"found_objects", "success", "failures",
             "device.success", "device.failures"}

\* ----------------------------------------------------------------- helpers
RECURSIVE SeqsUpTo(_, _)
SeqsUpTo(S, n) ==
    IF n = 0 THEN {<<>>}
    ELSE LET shorter == SeqsUpTo(S, n - 1)
         IN shorter \cup {Append(s, x) : s \in {t \in shorter : Len(t) = n - 1}, x \in S}

Range(s) == {s[i] : i \in 1..Len(s)}

\* Orderings in which iteration over a Python set may yield its members.
Orderings(S) ==
    {s \in SeqsUpTo(S, Cardinality(S)) : Len(s) = Cardinality(S) /\ Range(s) = S}

\* list_from_csv: the option's items, stripped, with the blank ones dropped.
RECURSIVE list_from_csv(_)
list_from_csv(items) ==
    IF items = <<>> THEN <<>>
    ELSE IF Head(items) = "" THEN list_from_csv(Tail(items))
    ELSE <<Head(items)>> \o list_from_csv(Tail(items))

\* hashlib.md5: the digest state is the content fed so far, hexdigest an
\* injective numeral of it (base 3, digits 1 and 2), so that equal digests
\* mean equal content whatever the chunking.
ByteDigit(b) == IF b = "a" THEN 1 ELSE 2

RECURSIVE md5_update(_, _)
md5_update(h, chunk) ==
    IF chunk = <<>> THEN h
    ELSE md5_update(h * 3 + ByteDigit(Head(chunk)), Tail(chunk))

md5_new == 0

RECURSIVE hexdigest(_)
hexdigest(h) ==
    IF h = 0 THEN <<>>
    ELSE Append(hexdigest(h \div 3), IF h % 3 = 1 THEN "1" ELSE "2")

\* int(): None raises TypeError, a string that is not a decimal numeral
\* raises ValueError; both are reported here as "raise".
DigitValue(c) ==
    IF c = "0" THEN 0 ELSE IF c = "1" THEN 1 ELSE IF c = "2" THEN 2 ELSE -1

RECURSIVE ParseDigits(_, _)
ParseDigits(s, acc) ==
    IF s = <<>> THEN acc
    ELSE ParseDigits(Tail(s), acc * 10 + DigitValue(Head(s)))

IntRaises(v) ==
    \/ v = NoneValue
    \/ v = <<>>
    \/ \E i \in 1..Len(v) : DigitValue(v[i]) < 0

int(v) == ParseDigits(v, 0)


Digest(content) == hexdigest(md5_update(md5_new, content))

\* The metadata a diskfile may hold.
Metadata(cl, etag) == [ContentLength |-> cl, ETag |-> etag]
Metadatas ==
    {Metadata(NoneValue, Digest(<<"a">>)), Metadata(<<"x">>, Digest(<<"a">>)),
     Metadata(<<"1">>, Digest(<<"a">>)),
     Metadata(<<"0", "2">>, Digest(<<"a", "b">>)),
     Metadata(<<"0", "2">>, Digest(<<"a">>))}

\* A chunk of the stream.
Chunks == {<<b>> : b \in Bytes}

\* The devs list of one object ring: device dicts and None holes.
RingHole == [kind |-> "None"]
RingDev(d) == [kind |-> "dict", device |-> d]
RingDevs == {<<>>, <<RingHole, RingDev("d1")>>, <<RingDev("d1"), RingDev("d2")>>}
Rings == [Policies -> RingDevs]

\* The --devices option, split at the commas (no option: no items).
CsvInputs == {<<>>, <<"d2", "", "d1">>, <<"d1", "d1">>}

\* An object as a device stores it: the content its stream yields, a byte a
\* chunk, and the metadata get_metadata returns.
Stored(content, metadata) == [content |-> content, metadata |-> metadata]

StoredObjects ==
    {Stored(<<"a">>, Metadata(<<"1">>, Digest(<<"a">>))),
     Stored(<<"a">>, Metadata(<<"0", "2">>, Digest(<<"a">>))),
     Stored(<<"b">>, Metadata(<<"1">>, Digest(<<"a">>)))}

\* Rings and device contents that stay as they are from sweep to sweep.
Backends ==
    [rings : {[p \in Policies |-> <<RingHole, RingDev("d1")>>],
              [p \in Policies |-> IF p = 0 THEN <<RingDev("d1"), RingDev("d2")>> ELSE <<>>]},
     objects : [DeviceNames -> {<<>>} \cup {<<o>> : o \in StoredObjects}]]

NoBackend ==
    [rings |-> [p \in Policies |-> <<>>], objects |-> [d \in DeviceNames |-> <<>>]]

\* ------------------------------------------------------------------- state
VARIABLES
    mode,          \* "once": run_once is called; "forever": run_forever is
    kwDevices,     \* kwargs['devices'], split at the commas
    backend,       \* the rings and the objects on the devices, where they are fixed
    clock,         \* time.time(), where the time is kept
    limiterSlept,  \* history: what ratelimit_sleep slept in this sweep, where the time is kept
    pc,            \* position of the thread
    stats,         \* self.stats
    counters,      \* the other fields reset_stats sets
    devices,       \* run_once's local devices, in iteration order
    devIdx,        \* position of the for loop of run_once in devices
    keyIdx,        \* keys the key-range iterator of the current device yielded
    cur,           \* the frame of audit_object/_audit_object for the current key
    elapsed,       \* run_forever's local elapsed, Unset until line 64 assigns it
    pre,           \* history: stats when the current key was yielded
    rings,         \* history: what the ring lookup just made returned
    ringLookups,   \* history: ring lookups of this sweep
    audited,       \* history: <<device, key>> of each audit_object call of this sweep
    streamed,      \* history: bytes of the chunks this sweep's loop bodies (lines 101-109) handled
    devLog,        \* history: one entry for each audit_device call of this sweep
    sweeps,        \* history: run_once calls so far
    reports,       \* history: dump_recon_cache calls so far
    dumped,        \* history: what this iteration of run_forever gave dump_recon_cache
    slept,         \* history: what this iteration's interval sleep slept
    jitters,       \* history: jitter sleeps so far
    auditCalls,    \* history: audit_object calls so far
    chunkReads,    \* history: chunks read so far
    raisedFrom     \* history: the call whose exception nothing caught

vars == <<mode, kwDevices, backend, clock, limiterSlept, pc, stats, counters, devices, devIdx, keyIdx, cur, elapsed,
          pre, rings, ringLookups, audited, streamed, devLog, sweeps, reports, dumped,
          slept, jitters, auditCalls, chunkReads, raisedFrom>>

\* What no action of the sweep and of the loop changes: the inputs, and the
\* time, which only SpecRate keeps.
inputVars == <<mode, kwDevices, backend, clock, limiterSlept>>
deviceVars == <<devices, devIdx, keyIdx, devLog>>
objVars == <<cur, pre, audited, streamed>>
loopVars == <<sweeps, reports, dumped, elapsed, slept, jitters>>
budgetVars == <<auditCalls, chunkReads>>

Unset == 0 - 1
NoDump == [key |-> "none", value |-> Unset]
NoRings == [p \in Policies |-> <<>>]
NoMetadata == [ContentLength |-> NoneValue, ETag |-> NoneValue]

\* The frame of one audit_object call before anything ran.  success is the
\* local of audit_object (line 127); metadata, etag and size are the locals
\* of _audit_object; the other fields record what the call did.
NoObject ==
    [key |-> 0, success |-> FALSE, metadata |-> NoMetadata, etag |-> md5_new,
     size |-> 0, chunks |-> 0, opened |-> FALSE, gotMetadata |-> FALSE,
     limited |-> 0, exhausted |-> FALSE, sizeCompared |-> FALSE,
     etagCompared |-> FALSE, quarantines |-> 0, notFound |-> FALSE,
     raised |-> "none", at |-> "none", done |-> FALSE]

\* defaultdict(int): every key reads 0 until it is incremented.
ZeroStats == [k \in StatKeys |-> 0]

Incr(st, k) == [st EXCEPT ![k] = @ + 1]

ZeroCounters ==
    [bytes_running_time |-> 0, bytes_processed |-> 0, total_bytes_processed |-> 0,
     total_files_processed |-> 0, passes |-> 0, quarantines |-> 0, errors |-> 0]

\* Lines 47-55 without line 51.
reset_stats_KeepsTotalBytes ==
    /\ stats' = ZeroStats
    /\ counters' = [ZeroCounters EXCEPT
                        !.total_bytes_processed = counters.total_bytes_processed]

\* Lines 47-55 without line 48.
reset_stats_KeepsStats ==
    /\ stats' = stats
    /\ counters' = ZeroCounters

\* reset_stats, as the new values of stats and counters.
reset_stats ==
    /\ stats' = ZeroStats
    /\ counters' = ZeroCounters

\* _get_devices: the device names of every policy's ring, holes skipped.
_get_devices(r) ==
    UNION {{r[p][i].device : i \in {j \in 1..Len(r[p]) : r[p][j].kind # "None"}} :
           p \in Policies}

\* line 163: override_devices or self._get_devices(), as the lists the for
\* loop of line 166 may iterate (a set iterates in any order).
ResolveDevices(override, r) ==
    IF override # <<>> THEN {override} ELSE Orderings(_get_devices(r))

\* A limiter whose return value forgets the running time it was given.
ratelimit_sleep_Forgets(running_time, incr_by) == incr_by

\* ratelimit_sleep's return value, in units of the time one byte takes at
\* max_bytes_per_second: the running time advanced by incr_by.
ratelimit_sleep(running_time, incr_by) ==
    IF incr_by <= 0 THEN running_time ELSE running_time + incr_by

\* The clock is in units of half the time one byte takes at
\* max_bytes_per_second; rate_buffer is ratelimit_sleep's default argument, the
\* idle time after which the running time is brought up to the clock.
TimePerByte == 2
RateBuffer == 5
ClockStart == RateBuffer + RateBuffer
IoTimes == {0, 1, 3, RateBuffer + 1}
ChunkLens == {1, 2}

\* A limiter that returns the advanced running time and never sleeps.
RateLimiter_NeverSleeps(now, running_time, incr_by) ==
    [sleep |-> 0, running_time |-> running_time + incr_by * TimePerByte]

\* ratelimit_sleep(running_time, max_rate, incr_by) called at the time now:
\* what it sleeps and what it returns.  A running time more than rate_buffer
\* behind the clock is brought up to it; one more than a request's time ahead
\* is slept off; the request's time is added.
RateLimiter(now, running_time, incr_by) ==
    LET time_per_request == incr_by * TimePerByte
        behind == now - running_time > RateBuffer
        ahead == ~behind /\ running_time - now > time_per_request
    IN [sleep |-> IF ahead THEN running_time - now ELSE 0,
        running_time |-> (IF behind THEN now ELSE running_time) + time_per_request]

\* isinstance(e, Exception): every class of ExcKinds derives from Exception.
IsException(kind) == kind \in ExcKinds

\* The except clause of lines 92-94 naming the other diskfile exception.
CaughtAsNotExist_WrongClass(kind) == kind = "DiskFileDeviceUnavailable"

\* lines 92-94: except DiskFileNotExist, around df.open().
CaughtAsNotExist(kind) == kind = "DiskFileNotExist"

\* Lines 130-132 letting the device-scoped exception through.
AuditObjectCatches_NotUnavailable(kind) ==
    IsException(kind) /\ kind # "DiskFileDeviceUnavailable"

\* lines 130-132: audit_object's except Exception.
AuditObjectCatches(kind) == IsException(kind)

\* lines 148-152: audit_device's except DiskFileDeviceUnavailable and except
\* Exception.
AuditDeviceCatches(kind) == kind = "DiskFileDeviceUnavailable" \/ IsException(kind)

\* Line 110 taking every size for a mismatch.
SizeDiffers_Always(size, metadata) == TRUE

\* Line 110 flagging only an object longer than its Content-Length.
SizeDiffers_OnlyLonger(size, metadata) == size > int(metadata.ContentLength)

\* line 110: size != int(metadata.get('Content-Length'))
SizeDiffers(size, metadata) == size # int(metadata.ContentLength)

\* Line 118 comparing the lengths of the two digests only.
EtagDiffers_LengthOnly(h, metadata) == Len(hexdigest(h)) # Len(metadata.ETag)

\* line 118: got_etag != expected_etag
EtagDiffers(h, metadata) == hexdigest(h) # metadata.ETag

\* Lines 139-142 without the else branch.
TallyObject_DropsFailure(st, success) ==
    IF success THEN Incr(st, "success") ELSE st

\* Lines 139-142 with the two branches exchanged.
TallyObject_Inverted(st, success) ==
    IF success THEN Incr(st, "failures") ELSE Incr(st, "success")

\* lines 139-142: _audit_device's tally of one audit_object result.
TallyObject(st, success) ==
    IF success THEN Incr(st, "success") ELSE Incr(st, "failures")

\* Lines 145-154 with success also set in the clause that only warns.
DeviceSucceeds_AlsoWhenUnavailable(raised) ==
    raised \in {"none", "DiskFileDeviceUnavailable"}

\* lines 145-154: audit_device's success, True only in the else clause.
DeviceSucceeds(raised) == raised = "none"

\* Lines 155-158 without the else branch.
TallyDevice_DropsFailure(st, success) ==
    IF success THEN Incr(st, "device.success") ELSE st

\* lines 155-158: audit_device's tally of one _audit_device call.
TallyDevice(st, success) ==
    IF success THEN Incr(st, "device.success") ELSE Incr(st, "device.failures")

\* The devLog entry of an audit_device call that began with the stats st.
OpenEntry(device, st) ==
    [device |-> device, at |-> "running", objectRaised |-> FALSE,
     before |-> st, after |-> st]

\* The call's entry when it ends: at "done", or at the call that raised.
CloseEntry(log, at, st) ==
    [log EXCEPT ![Len(log)] = [@ EXCEPT !.at = at, !.after = st]]

\* The auditor after __init__ (lines 36-45), before run_once or run_forever
\* is called.
Constructed ==
    /\ clock = ClockStart
    /\ limiterSlept = 0
    /\ pc = IF mode = "forever" THEN "jitter" ELSE "run_once"
    /\ stats = ZeroStats
    /\ counters = ZeroCounters
    /\ devices = <<>>
    /\ devIdx = 0
    /\ keyIdx = 0
    /\ cur = NoObject
    /\ elapsed = Unset
    /\ pre = ZeroStats
    /\ rings = NoRings
    /\ ringLookups = 0
    /\ audited = <<>>
    /\ streamed = 0
    /\ devLog = <<>>
    /\ sweeps = 0
    /\ reports = 0
    /\ dumped = NoDump
    /\ slept = Unset
    /\ jitters = 0
    /\ auditCalls = 0
    /\ chunkReads = 0
    /\ raisedFrom = "none"

\* What the collaborators return and raise is open: each call chooses anew,
\* and backend is not read.
Init ==
    /\ mode \in {"once", "forever"}
    /\ kwDevices \in CsvInputs
    /\ backend = NoBackend
    /\ Constructed

\* ------------------------------------------------------------ run_forever
\* line 59: the jitter sleep before the loop.
JitterSleep ==
    /\ pc = "jitter"
    /\ jitters' = jitters + 1
    /\ pc' = "begin"
    /\ UNCHANGED <<inputVars, stats, counters, deviceVars, objVars, rings, ringLookups,
                   sweeps, reports, dumped, elapsed, slept, budgetVars, raisedFrom>>

\* lines 61-63: the top of the loop, up to the call of run_once.  What the
\* iteration before left in elapsed is not read again: line 64 assigns it
\* before lines 65-70 read it.
BeginSweep ==
    /\ pc = "begin"
    /\ sweeps < MaxSweeps
    /\ pc' = "run_once"
    /\ elapsed' = Unset
    /\ dumped' = NoDump
    /\ slept' = Unset
    /\ UNCHANGED <<inputVars, stats, counters, deviceVars, objVars, rings, ringLookups,
                   sweeps, reports, jitters, budgetVars, raisedFrom>>

\* ---------------------------------------------------------------- run_once
\* lines 161-166: the stats are reset and the for loop is entered with devs.
StartSweep(devs) ==
    /\ reset_stats
    /\ sweeps' = sweeps + 1
    /\ devices' = devs
    /\ devIdx' = IF devs = <<>> THEN 0 ELSE 1
    /\ keyIdx' = 0
    /\ cur' = NoObject
    /\ pre' = ZeroStats
    /\ audited' = <<>>
    /\ streamed' = 0
    /\ devLog' = <<>>
    /\ pc' = IF devs = <<>> THEN "sweep_end" ELSE "device"

\* lines 161-165 with a --devices option that names a device.
RunOnceOverride ==
    /\ pc = "run_once"
    /\ list_from_csv(kwDevices) # <<>>
    /\ \E devs \in ResolveDevices(list_from_csv(kwDevices), NoRings) : StartSweep(devs)
    /\ rings' = NoRings
    /\ ringLookups' = 0
    /\ UNCHANGED <<inputVars, reports, dumped, elapsed, slept, jitters, budgetVars,
                   raisedFrom>>

\* lines 161-165 without one: the rings are looked up.
RunOnceRings ==
    /\ pc = "run_once"
    /\ list_from_csv(kwDevices) = <<>>
    /\ \E r \in Rings :
        /\ rings' = r
        /\ \E devs \in ResolveDevices(list_from_csv(kwDevices), r) : StartSweep(devs)
    /\ ringLookups' = 1
    /\ UNCHANGED <<inputVars, reports, dumped, elapsed, slept, jitters, budgetVars,
                   raisedFrom>>

\* line 163 when POLICIES.get_object_ring raises: nothing in run_once or in
\* run_forever catches it.
RunOnceRingsRaise ==
    /\ pc = "run_once"
    /\ list_from_csv(kwDevices) = <<>>
    /\ reset_stats
    /\ sweeps' = sweeps + 1
    /\ ringLookups' = 1
    /\ rings' = NoRings
    /\ raisedFrom' = "get_object_ring"
    /\ pc' = "raised"
    /\ devices' = <<>>
    /\ devIdx' = 0
    /\ keyIdx' = 0
    /\ cur' = NoObject
    /\ pre' = ZeroStats
    /\ audited' = <<>>
    /\ streamed' = 0
    /\ devLog' = <<>>
    /\ UNCHANGED <<inputVars, reports, dumped, elapsed, slept, jitters, budgetVars>>

\* ------------------------------------------------------------ audit_device
\* The for loop of line 166 moves on to the next device.
NextDevice ==
    /\ devIdx' = devIdx + 1
    /\ pc' = IF devIdx + 1 > Len(devices) THEN "sweep_end" ELSE "device"
    /\ keyIdx' = 0
    /\ cur' = NoObject

\* An exception of class kind, raised at `at`, leaves _audit_device: lines
\* 148-158 catch and tally it, or it leaves audit_device and run_once too.
Escape(log, kind, at) ==
    IF AuditDeviceCatches(kind)
    THEN LET st == TallyDevice(stats, DeviceSucceeds(kind))
         IN /\ stats' = st
            /\ devLog' = CloseEntry(log, at, st)
            /\ NextDevice
            /\ UNCHANGED raisedFrom
    ELSE /\ pc' = "raised"
         /\ raisedFrom' = at
         /\ devLog' = CloseEntry(log, at, stats)
         /\ UNCHANGED <<stats, devIdx, keyIdx, cur>>

\* audit_device up to the first next() of _find_objects: get_connection
\* returns a connection.
Connect ==
    /\ pc = "device"
    /\ devLog' = Append(devLog, OpenEntry(devices[devIdx], stats))
    /\ rings' = NoRings
    /\ pc' = "enum"
    /\ UNCHANGED <<inputVars, stats, counters, devices, devIdx, keyIdx, objVars,
                   ringLookups, loopVars, budgetVars, raisedFrom>>

\* line 81: get_connection (or get_device_host_and_port) raises.
ConnectRaises ==
    /\ pc = "device"
    /\ \E kind \in ExcKinds :
        Escape(Append(devLog, OpenEntry(devices[devIdx], stats)), kind, "get_connection")
    /\ rings' = NoRings
    /\ UNCHANGED <<inputVars, counters, streamed, devices, pre, audited, ringLookups, loopVars,
                   budgetVars>>

\* ----------------------------------------------------------- _audit_device
\* iterKeyRange yields the next key: lines 136-138 up to the call.
NextKey ==
    /\ pc = "enum"
    /\ auditCalls < MaxAudits
    /\ auditCalls' = auditCalls + 1
    /\ keyIdx' = keyIdx + 1
    /\ pre' = stats
    /\ stats' = Incr(stats, "found_objects")
    /\ cur' = [NoObject EXCEPT !.key = keyIdx + 1]
    /\ audited' = Append(audited, <<devices[devIdx], keyIdx + 1>>)
    /\ pc' = "open"
    /\ UNCHANGED <<inputVars, counters, streamed, devices, devIdx, devLog, rings, ringLookups,
                   loopVars, chunkReads, raisedFrom>>

\* iterKeyRange is exhausted: _audit_device returns, lines 153-158.
EnumDone ==
    /\ pc = "enum"
    /\ LET st == TallyDevice(stats, DeviceSucceeds("none"))
       IN /\ stats' = st
          /\ devLog' = CloseEntry(devLog, "done", st)
    /\ NextDevice
    /\ UNCHANGED <<inputVars, counters, streamed, devices, pre, audited, rings, ringLookups,
                   loopVars, budgetVars, raisedFrom>>

\* line 84: iterKeyRange raises after keyIdx keys.
EnumRaises ==
    /\ pc = "enum"
    /\ \E kind \in ExcKinds : Escape(devLog, kind, "iterKeyRange")
    /\ UNCHANGED <<inputVars, counters, streamed, devices, pre, audited, rings, ringLookups,
                   loopVars, budgetVars>>

\* ------------------------------------------------- audit_object/_audit_object
\* What no step of audit_object touches.
objectFrame == <<inputVars, devices, pre, audited, rings, ringLookups, loopVars>>

\* The step stays inside audit_object.
Inside == UNCHANGED <<stats, devIdx, keyIdx, devLog, raisedFrom>>

\* The frame of _audit_object is left: its locals are gone.
Unwound(frame) ==
    [frame EXCEPT !.metadata = NoMetadata, !.etag = md5_new, !.size = 0, !.chunks = 0]

\* An exception leaves _audit_object at `at`: audit_object's except clause
\* (lines 130-133) logs it and returns success as line 127 set it; what the
\* clause does not catch leaves _audit_device.
Raise(frame, kind, at) ==
    IF AuditObjectCatches(kind)
    THEN /\ cur' = [frame EXCEPT !.raised = kind, !.at = at]
         /\ pc' = "tally"
         /\ devLog' = [devLog EXCEPT ![Len(devLog)].objectRaised = TRUE]
         /\ UNCHANGED <<stats, devIdx, keyIdx, raisedFrom>>
    ELSE Escape(devLog, kind, "audit_object")

\* _audit_object returns ret: line 129 assigns it, line 133 returns it.
Return(frame, ret) ==
    /\ cur' = [frame EXCEPT !.success = ret]
    /\ pc' = "tally"
    /\ Inside

\* line 88: get_diskfile_from_audit_location raises.
LocateRaises ==
    /\ pc = "open"
    /\ \E kind \in ExcKinds : Raise(Unwound(cur), kind, "locate")
    /\ UNCHANGED <<objectFrame, counters, streamed, budgetVars>>

\* line 91: df.open() returns.
OpenOk ==
    /\ pc = "open"
    /\ cur' = [cur EXCEPT !.opened = TRUE]
    /\ pc' = "metadata"
    /\ Inside
    /\ UNCHANGED <<objectFrame, counters, streamed, budgetVars>>

\* line 91: df.open() raises; lines 92-94 and 124 when it is DiskFileNotExist.
OpenRaises ==
    /\ pc = "open"
    /\ \E kind \in ExcKinds :
        IF CaughtAsNotExist(kind)
        THEN Return([cur EXCEPT !.notFound = TRUE], TRUE)
        ELSE Raise(Unwound(cur), kind, "open")
    /\ UNCHANGED <<objectFrame, counters, streamed, budgetVars>>

\* line 99: df.get_metadata() returns.
GetMetadata ==
    /\ pc = "metadata"
    /\ \E md \in Metadatas :
        cur' = [cur EXCEPT !.gotMetadata = TRUE, !.metadata = md]
    /\ pc' = "read"
    /\ Inside
    /\ UNCHANGED <<objectFrame, counters, streamed, budgetVars>>

\* line 99: df.get_metadata() raises.
GetMetadataRaises ==
    /\ pc = "metadata"
    /\ \E kind \in ExcKinds : Raise(Unwound(cur), kind, "get_metadata")
    /\ UNCHANGED <<objectFrame, counters, streamed, budgetVars>>

\* lines 101-103: one chunk goes into the digest and the size.
Consume(frame, chunk) ==
    [frame EXCEPT !.etag = md5_update(@, chunk), !.size = @ + Len(chunk),
                  !.chunks = @ + 1]

\* lines 100-109: the stream yields a chunk and the limiter lets it pass.
ReadChunk ==
    /\ pc = "read"
    /\ chunkReads < MaxReads
    /\ chunkReads' = chunkReads + 1
    /\ \E chunk \in Chunks :
        /\ cur' = [Consume(cur, chunk) EXCEPT !.limited = @ + 1]
        /\ counters' =
            [counters EXCEPT
                !.bytes_running_time = ratelimit_sleep(@, Len(chunk)),
                !.bytes_processed = @ + Len(chunk),
                !.total_bytes_processed = @ + Len(chunk)]
        /\ streamed' = streamed + Len(chunk)
    /\ pc' = "read"
    /\ Inside
    /\ UNCHANGED <<objectFrame, auditCalls>>

\* lines 100-107: the stream yields a chunk and ratelimit_sleep raises.
LimiterRaises ==
    /\ pc = "read"
    /\ chunkReads < MaxReads
    /\ chunkReads' = chunkReads + 1
    /\ \E kind \in ExcKinds :
        Raise(Unwound([cur EXCEPT !.limited = @ + 1]), kind, "ratelimit_sleep")
    /\ UNCHANGED <<objectFrame, counters, streamed, auditCalls>>

\* line 100: reading the next chunk raises.
ReadRaises ==
    /\ pc = "read"
    /\ \E kind \in ExcKinds : Raise(Unwound(cur), kind, "read")
    /\ UNCHANGED <<objectFrame, counters, streamed, budgetVars>>

\* line 100: the stream is exhausted.
ReadExhausted ==
    /\ pc = "read"
    /\ cur' = [cur EXCEPT !.exhausted = TRUE]
    /\ pc' = "compare"
    /\ Inside
    /\ UNCHANGED <<objectFrame, counters, streamed, budgetVars>>

\* line 110: int() raises on the Content-Length header.
IntRaisesOnContentLength ==
    /\ pc = "compare"
    /\ IntRaises(cur.metadata.ContentLength)
    /\ Raise(Unwound(cur), "Exception", "int")
    /\ UNCHANGED <<objectFrame, counters, streamed, budgetVars>>

\* df.quarantine() is called from `frame`, and returns (then _audit_object
\* returns False) or raises.
Quarantine(frame) ==
    LET called == [frame EXCEPT !.quarantines = @ + 1]
    IN \/ Return(called, FALSE)
       \/ Raise(called, "Exception", "quarantine")

\* lines 110-115: the size is not the Content-Length.
QuarantineSize ==
    /\ pc = "compare"
    /\ ~IntRaises(cur.metadata.ContentLength)
    /\ SizeDiffers(cur.size, cur.metadata)
    /\ Quarantine([cur EXCEPT !.sizeCompared = TRUE])
    /\ UNCHANGED <<objectFrame, counters, streamed, budgetVars>>

\* lines 116-123: the digest is not the ETag.
QuarantineEtag ==
    /\ pc = "compare"
    /\ ~IntRaises(cur.metadata.ContentLength)
    /\ ~SizeDiffers(cur.size, cur.metadata)
    /\ EtagDiffers(cur.etag, cur.metadata)
    /\ Quarantine([cur EXCEPT !.sizeCompared = TRUE, !.etagCompared = TRUE])
    /\ UNCHANGED <<objectFrame, counters, streamed, budgetVars>>

\* lines 110-124: both match.
ReturnTrue ==
    /\ pc = "compare"
    /\ ~IntRaises(cur.metadata.ContentLength)
    /\ ~SizeDiffers(cur.size, cur.metadata)
    /\ ~EtagDiffers(cur.etag, cur.metadata)
    /\ Return([cur EXCEPT !.sizeCompared = TRUE, !.etagCompared = TRUE], TRUE)
    /\ UNCHANGED <<objectFrame, counters, streamed, budgetVars>>

\* lines 139-142: audit_object returned, the result is tallied.
Tally ==
    /\ pc = "tally"
    /\ stats' = TallyObject(stats, cur.success)
    /\ cur' = [cur EXCEPT !.done = TRUE]
    /\ pc' = "enum"
    /\ UNCHANGED <<objectFrame, counters, streamed, devIdx, keyIdx, devLog, budgetVars,
                   raisedFrom>>

\* ------------------------------------------------------- the end of a sweep
\* What time.time() - begin may read, around the interval.
ElapsedValues == {Interval - 1, Interval, Interval + 1}

\* lines 168-169: run_once returns; in run_forever line 64 follows.
RunOnceReturns ==
    /\ pc = "sweep_end"
    /\ IF mode = "once"
       THEN pc' = "done" /\ elapsed' = elapsed
       ELSE pc' = "report" /\ elapsed' \in ElapsedValues
    /\ rings' = NoRings
    /\ UNCHANGED <<inputVars, stats, counters, deviceVars, objVars, ringLookups,
                   sweeps, reports, dumped, slept, jitters, budgetVars, raisedFrom>>

\* lines 65-68: the sweep's duration goes to the recon cache.
Report ==
    /\ pc = "report"
    /\ dumped' = [key |-> "object_audit_sweep", value |-> elapsed]
    /\ reports' = reports + 1
    /\ pc' = "wait"
    /\ UNCHANGED <<inputVars, stats, counters, deviceVars, objVars, rings, ringLookups,
                   sweeps, elapsed, slept, jitters, budgetVars, raisedFrom>>

\* Lines 69-70 sleeping a whole interval after a short sweep.
IntervalSleep_WholeInterval(e) == IF e < Interval THEN Interval ELSE 0

\* lines 69-70: what the loop sleeps after a sweep that took e (0: line 70
\* is not run).
IntervalSleep(e) == IF e < Interval THEN Interval - e ELSE 0

\* lines 69-71: the rest of the interval is slept, the stats are reset.
IntervalWait ==
    /\ pc = "wait"
    /\ slept' = IntervalSleep(elapsed)
    /\ reset_stats
    /\ pc' = "begin"
    /\ UNCHANGED <<inputVars, deviceVars, objVars, rings, ringLookups, sweeps,
                   reports, dumped, elapsed, jitters, budgetVars, raisedFrom>>

Next ==
    \/ JitterSleep
    \/ BeginSweep
    \/ RunOnceOverride
    \/ RunOnceRings
    \/ RunOnceRingsRaise
    \/ Connect
    \/ ConnectRaises
    \/ NextKey
    \/ EnumDone
    \/ EnumRaises
    \/ LocateRaises
    \/ OpenOk
    \/ OpenRaises
    \/ GetMetadata
    \/ GetMetadataRaises
    \/ ReadChunk
    \/ LimiterRaises
    \/ ReadRaises
    \/ ReadExhausted
    \/ IntRaisesOnContentLength
    \/ QuarantineSize
    \/ QuarantineEtag
    \/ ReturnTrue
    \/ Tally
    \/ RunOnceReturns
    \/ Report
    \/ IntervalWait

Spec == Init /\ [][Next]_vars

\* ------------------------------------------------- the chunk loop, with time
\* A sweep is in the chunk loop of an object: run_once has reset the running
\* time to 0 (line 49) and the clock reads ClockStart.
InitRate ==
    /\ mode = "once"
    /\ kwDevices = <<"d1", "d1">>
    /\ backend = NoBackend
    /\ clock = ClockStart
    /\ limiterSlept = 0
    /\ pc = "read"
    /\ stats = Incr(ZeroStats, "found_objects")
    /\ counters = ZeroCounters
    /\ devices = <<"d1", "d1">>
    /\ devIdx = 1
    /\ keyIdx = 1
    /\ cur = [NoObject EXCEPT !.key = 1, !.opened = TRUE, !.gotMetadata = TRUE,
                               !.metadata = Metadata(<<"0", "2">>, Digest(<<"a">>))]
    /\ elapsed = Unset
    /\ pre = ZeroStats
    /\ rings = NoRings
    /\ ringLookups = 0
    /\ audited = <<<<"d1", 1>>>>
    /\ streamed = 0
    /\ devLog = <<OpenEntry("d1", ZeroStats)>>
    /\ sweeps = 1
    /\ reports = 0
    /\ dumped = NoDump
    /\ slept = Unset
    /\ jitters = 0
    /\ auditCalls = 1
    /\ chunkReads = 0
    /\ raisedFrom = "none"

\* lines 100-109 with the time: the stream takes io to yield a chunk of len
\* bytes, ratelimit_sleep is called and sleeps what it sleeps.  The content
\* is left out: the digest and the size play no part in the time.
TimedReadChunk ==
    /\ pc = "read"
    /\ chunkReads < MaxTimedReads
    /\ chunkReads' = chunkReads + 1
    /\ \E io \in IoTimes, len \in ChunkLens :
        LET now == clock + io
            limited == RateLimiter(now, counters.bytes_running_time, len)
        IN /\ clock' = now + limited.sleep
           /\ limiterSlept' = limiterSlept + limited.sleep
           /\ counters' =
                [counters EXCEPT
                    !.bytes_running_time = limited.running_time,
                    !.bytes_processed = @ + len,
                    !.total_bytes_processed = @ + len]
           /\ streamed' = streamed + len
    /\ cur' = [cur EXCEPT !.chunks = @ + 1, !.limited = @ + 1]
    /\ UNCHANGED <<mode, kwDevices, backend, pc, stats, devices, devIdx, keyIdx, elapsed,
                   pre, rings, ringLookups, audited, devLog, sweeps, reports, dumped,
                   slept, jitters, auditCalls, raisedFrom>>

NextRate == TimedReadChunk

SpecRate == InitRate /\ [][NextRate]_vars

\* ----------------------------------------------- sweeps over a fixed backend
\* run_forever over rings and devices that do not change and collaborators
\* that raise nothing: every call returns what backend holds.
InitStable ==
    /\ mode = "forever"
    /\ kwDevices \in CsvInputs
    /\ backend \in Backends
    /\ Constructed

\* The objects of the device being audited, and the one being verified.
DeviceObjects == backend.objects[devices[devIdx]]
CurrentObject == DeviceObjects[cur.key]

StableRunOnceRings ==
    /\ RunOnceRings
    /\ rings' = backend.rings

StableNextKey ==
    /\ pc = "enum"
    /\ keyIdx < Len(DeviceObjects)
    /\ NextKey

StableEnumDone ==
    /\ pc = "enum"
    /\ keyIdx = Len(DeviceObjects)
    /\ EnumDone

StableGetMetadata ==
    /\ pc = "metadata"
    /\ GetMetadata
    /\ cur'.metadata = CurrentObject.metadata

StableReadChunk ==
    /\ pc = "read"
    /\ cur.chunks < Len(CurrentObject.content)
    /\ ReadChunk
    /\ cur'.etag = md5_update(cur.etag, <<CurrentObject.content[cur.chunks + 1]>>)

StableReadExhausted ==
    /\ pc = "read"
    /\ cur.chunks = Len(CurrentObject.content)
    /\ ReadExhausted

NextStable ==
    \/ JitterSleep
    \/ BeginSweep
    \/ RunOnceOverride
    \/ StableRunOnceRings
    \/ Connect
    \/ StableNextKey
    \/ StableEnumDone
    \/ OpenOk
    \/ StableGetMetadata
    \/ StableReadChunk
    \/ StableReadExhausted
    \/ QuarantineSize
    \/ QuarantineEtag
    \/ ReturnTrue
    \/ Tally
    \/ RunOnceReturns
    \/ Report
    \/ IntervalWait

SpecStable == InitStable /\ [][NextStable]_vars

\* ================================================================= properties
\* audit_object has returned for the key in cur (and, once cur.done, its
\* result is tallied).
AtResult == pc \in {"tally", "enum"} /\ cur.key # 0

FullyStreamed(c) == c.opened /\ c.gotMetadata /\ c.exhausted

SizeMatches(c) ==
    /\ ~IntRaises(c.metadata.ContentLength)
    /\ c.size = int(c.metadata.ContentLength)

DigestMatches(c) == hexdigest(c.etag) = c.metadata.ETag

\* The current key was counted as found and as one success, resp. failure.
CountedSuccess ==
    stats = [pre EXCEPT !["found_objects"] = @ + 1, !["success"] = @ + 1]

CountedFailure ==
    stats = [pre EXCEPT !["found_objects"] = @ + 1, !["failures"] = @ + 1]

\* C1: an object that opens, streams to the end with as many bytes as its
\* Content-Length says and with the digest its ETag says makes _audit_object
\* return True without quarantine, and _audit_device count it as one success
\* and no failure.
C1_MatchingObjectSucceeds ==
    (AtResult /\ FullyStreamed(cur) /\ SizeMatches(cur) /\ DigestMatches(cur)) =>
        /\ cur.success
        /\ cur.raised = "none"
        /\ cur.quarantines = 0
        /\ (cur.done => CountedSuccess)

C1_Witness ==
    /\ pc = "enum" /\ cur.done /\ cur.success
    /\ FullyStreamed(cur) /\ SizeMatches(cur) /\ DigestMatches(cur)
    /\ cur.size = 2
    /\ stats["success"] = pre["success"] + 1

\* C2: an object whose streamed size is not its Content-Length is a failure,
\* quarantined exactly once, and its digest is not compared with the ETag,
\* whether or not the digest matches.
C2_SizeMismatchQuarantines ==
    (/\ AtResult /\ FullyStreamed(cur)
     /\ ~IntRaises(cur.metadata.ContentLength)
     /\ cur.size # int(cur.metadata.ContentLength)) =>
        /\ ~cur.success
        /\ cur.sizeCompared
        /\ cur.quarantines = 1
        /\ ~cur.etagCompared
        /\ (cur.done => CountedFailure)

C2_Witness ==
    /\ pc = "enum" /\ cur.done /\ FullyStreamed(cur)
    /\ ~IntRaises(cur.metadata.ContentLength)
    /\ cur.size # int(cur.metadata.ContentLength)
    /\ DigestMatches(cur)
    /\ cur.quarantines = 1 /\ ~cur.success

\* C3: an object of the right size whose digest is not its ETag is a failure,
\* quarantined exactly once and counted in failures exactly once.
C3_EtagMismatchQuarantines ==
    (AtResult /\ FullyStreamed(cur) /\ SizeMatches(cur) /\ ~DigestMatches(cur)) =>
        /\ ~cur.success
        /\ cur.etagCompared
        /\ cur.quarantines = 1
        /\ (cur.done => CountedFailure)

C3_Witness ==
    /\ pc = "enum" /\ cur.done /\ FullyStreamed(cur)
    /\ SizeMatches(cur) /\ ~DigestMatches(cur)
    /\ cur.quarantines = 1 /\ cur.raised = "none"
    /\ stats["failures"] = pre["failures"] + 1

\* df.open() raised DiskFileNotExist for the key in cur.
OpenFoundNothing ==
    cur.notFound \/ (cur.raised = "DiskFileNotExist" /\ cur.at = "open")

\* C4: when open raises not-found the verification is skipped: no metadata
\* and no chunk is read, nothing is quarantined, and the key counts as found
\* and as a success, not as a failure.
C4_NotFoundIsSkipped ==
    (AtResult /\ OpenFoundNothing) =>
        /\ cur.success
        /\ ~cur.gotMetadata /\ cur.limited = 0 /\ ~cur.exhausted
        /\ cur.quarantines = 0
        /\ stats["found_objects"] = pre["found_objects"] + 1
        /\ stats["failures"] = pre["failures"]
        /\ (cur.done => CountedSuccess)

C4_Witness ==
    /\ pc = "enum" /\ cur.done /\ cur.notFound /\ ~cur.opened
    /\ stats["success"] = pre["success"] + 1

\* run_once has left its for loop.
SweepOver == pc \in {"sweep_end", "done", "report", "wait"}

\* The devices audit_device was called with in this sweep, in order.
AuditedDevices == [i \in 1..Len(devLog) |-> devLog[i].device]

\* The audit_device call of entry e counted one device success and no
\* device failure.
CountedDeviceSuccess(e) ==
    /\ e.after["device.success"] = e.before["device.success"] + 1
    /\ e.after["device.failures"] = e.before["device.failures"]

\* C5: a device whose connection cannot be established adds exactly one to
\* device.failures and changes no other counter, run_once does not raise
\* because of it, and the devices after it in the list are audited too.
C5_UnreachableDeviceIsContained ==
    /\ \A i \in 1..Len(devLog) :
        devLog[i].at = "get_connection" =>
            /\ devLog[i].after = Incr(devLog[i].before, "device.failures")
            /\ i < Len(devices) /\ SweepOver => devLog[i + 1].at # "running"
    /\ raisedFrom # "get_connection"
    /\ SweepOver => AuditedDevices = devices

C5_Witness ==
    /\ SweepOver
    /\ Len(devLog) = 2
    /\ devLog[1].at = "get_connection"
    /\ devLog[2].at = "done"
    /\ stats["device.failures"] = 1 /\ stats["device.success"] = 1
    /\ stats["found_objects"] = 1

\* C6: an exception raised while one object is verified (other than the
\* not-found of open) is caught by audit_object and counted as exactly one
\* failure of that object; it never ends the scan of the device, whose
\* enumeration, when it completes, counts one device success.
C6_ObjectExceptionIsContained ==
    /\ (AtResult /\ cur.raised # "none") =>
        /\ ~cur.success
        /\ devLog[Len(devLog)].at = "running"
        /\ stats["found_objects"] = pre["found_objects"] + 1
        /\ (cur.done => CountedFailure)
    /\ \A i \in 1..Len(devLog) :
        /\ devLog[i].at # "audit_object"
        /\ devLog[i].at = "done" => CountedDeviceSuccess(devLog[i])
    /\ raisedFrom # "audit_object"

C6_Witness ==
    /\ SweepOver
    /\ \E i \in 1..Len(devLog) :
        /\ devLog[i].objectRaised
        /\ devLog[i].at = "done"
        /\ devLog[i].after["found_objects"] = devLog[i].before["found_objects"] + 2
        /\ devLog[i].after["success"] = devLog[i].before["success"] + 1
        /\ devLog[i].after["failures"] = devLog[i].before["failures"] + 1
        /\ CountedDeviceSuccess(devLog[i])

\* C7: in run_forever every sweep that begins completes and is followed by
\* exactly one report of its elapsed time under the key object_audit_sweep,
\* before the next sweep begins.
C7_EverySweepIsReported ==
    mode = "forever" =>
        /\ pc # "raised"
        /\ pc \in {"jitter", "begin", "run_once", "wait"} => reports = sweeps
        /\ pc \notin {"jitter", "begin", "run_once", "wait"} => reports + 1 = sweeps
        /\ pc = "wait" => dumped = [key |-> "object_audit_sweep", value |-> elapsed]

\* C8: no exception of a collaborator leaves run_once, or ends the loop of
\* run_forever.
C8_NothingLeavesRunOnce == pc # "raised" /\ raisedFrom = "none"

\* The device names in the rings r, holes left out.
RingDeviceNames(r) ==
    {d \in DeviceNames :
        \E p \in Policies : \E i \in 1..Len(r[p]) :
            r[p][i].kind = "dict" /\ r[p][i].device = d}

NoDuplicates(seq) == \A i, j \in 1..Len(seq) : i # j => seq[i] # seq[j]

\* C9: with a --devices list the devices audited in a sweep are the distinct
\* names of the list, each audited once, and the rings are not consulted;
\* without one they are the device names of all the rings, each audited once.
C9_AuditedDevicesAreTheResolvedSet ==
    /\ (pc \in {"device", "sweep_end"} /\ ringLookups = 1 /\ devLog = <<>>) =>
        Range(devices) = RingDeviceNames(rings)
    /\ list_from_csv(kwDevices) # <<>> =>
        /\ ringLookups = 0
        /\ SweepOver => Range(AuditedDevices) = Range(list_from_csv(kwDevices))
    /\ SweepOver => (Range(AuditedDevices) = Range(devices) /\ NoDuplicates(AuditedDevices))

\* C10: within one sweep audit_object is called at most once for a device
\* and key.
C10_AtMostOneAuditPerKey == NoDuplicates(audited)

\* A sweep has started and the stats it counted are still in place.
InSweep == pc \notin {"jitter", "begin", "run_once", "raised"}

\* The audit_device calls of this sweep that ended at one of the places in S.
EndedAt(S) == Cardinality({i \in 1..Len(devLog) : devLog[i].at \in S})

\* C11: every counter and the byte totals are zero when a sweep starts to
\* enumerate, whatever the sweeps before it counted, and during and at the
\* end of a sweep the counters count the events of that sweep only.
C11_CountersArePerSweep ==
    /\ (pc \in {"device", "sweep_end"} /\ devLog = <<>>) =>
        (stats = ZeroStats /\ counters = ZeroCounters)
    /\ InSweep =>
        /\ stats["found_objects"] = Len(audited)
        /\ stats["success"] + stats["failures"] <= Len(audited)
        /\ stats["device.success"] = EndedAt({"done"})
        /\ stats["device.failures"] = EndedAt({"get_connection", "iterKeyRange", "audit_object"})
        /\ counters.total_bytes_processed = streamed
        /\ counters.bytes_processed = streamed

C11_Witness ==
    /\ sweeps = 2
    /\ pc = "sweep_end"
    /\ auditCalls = 2 /\ stats["found_objects"] = 1 /\ stats["success"] = 1
    /\ chunkReads = 2 /\ counters.total_bytes_processed = 1
    /\ stats["device.success"] = 1

\* run_forever is at the top of its loop after an iteration.
IterationOver == mode = "forever" /\ pc = "begin" /\ slept # Unset

\* C12: after a sweep shorter than the interval the loop sleeps exactly the
\* rest of the interval, so that the next sweep begins no sooner than one
\* interval after this one began; after a sweep that took the interval or
\* longer it does not sleep at all.
C12_IntervalPacing ==
    IterationOver =>
        /\ elapsed < Interval => (slept = Interval - elapsed /\ elapsed + slept = Interval)
        /\ elapsed >= Interval => slept = 0
        /\ elapsed + slept >= Interval

C12_Witness == IterationOver /\ elapsed = Interval - 1 /\ slept = 1 /\ sweeps = 1

\* C13: run_forever sleeps its jitter exactly once, before the first sweep;
\* in each iteration the report comes after the sweep and before the interval
\* wait; and the loop is never left.
C13_LoopOrder ==
    mode = "forever" =>
        /\ jitters = (IF pc = "jitter" THEN 0 ELSE 1)
        /\ pc = "jitter" => sweeps = 0
        /\ pc = "report" => (reports + 1 = sweeps /\ elapsed # Unset /\ slept = Unset)
        /\ pc = "wait" => (reports = sweeps /\ dumped # NoDump /\ slept = Unset)
        /\ IterationOver => (reports = sweeps /\ dumped # NoDump)
        /\ pc \notin {"done", "raised"}

\* The stored object has the size and the digest its metadata names.
Matches(o) ==
    /\ ~IntRaises(o.metadata.ContentLength)
    /\ Len(o.content) = int(o.metadata.ContentLength)
    /\ Digest(o.content) = o.metadata.ETag

Uncorrupted(b) ==
    \A d \in DeviceNames : \A i \in 1..Len(b.objects[d]) : Matches(b.objects[d][i])

\* C14: consecutive sweeps over the same rings and devices, all of whose
\* objects match their metadata, count the same found_objects and success,
\* no failures, and quarantine nothing.  (auditCalls counts the audit_object
\* calls of all the sweeps so far: at the end of the n-th sweep it is n times
\* what this sweep found exactly when every sweep found as many.)
C14_SweepsAreIdempotent ==
    Uncorrupted(backend) =>
        /\ cur.quarantines = 0
        /\ pc = "sweep_end" =>
            /\ stats["failures"] = 0
            /\ stats["success"] = stats["found_objects"]
            /\ auditCalls = sweeps * stats["found_objects"]

C14_Witness ==
    /\ Uncorrupted(backend)
    /\ pc = "sweep_end"
    /\ sweeps = 2
    /\ stats["success"] = 1

\* The time N bytes take at the ceiling (N/R), and what the limiter lets the
\* running time be ahead of the clock: twice the time of the longest chunk.
TimeAtCeiling(n) == n * TimePerByte
LimiterSlack == 2 * 2 * TimePerByte

\* C15 as stated: the rate limiter's sleeps of a sweep add up to the time the
\* sweep's bytes take at the ceiling, but for a small epsilon, and to no more.
C15_SleepIsBytesOverRate ==
    /\ limiterSlept + LimiterSlack >= TimeAtCeiling(streamed)
    /\ limiterSlept <= TimeAtCeiling(streamed)

\* C15, as the limiter has it: the time the sweep has spent reading and sleeping in the
\* limiter is the time its bytes take at the ceiling, but for the limiter's
\* slack, or more; the sleeps alone add up to no more than that time, and to
\* nothing when the reads are slow enough.
C15_ThroughputIsCapped ==
    /\ (clock - ClockStart) + LimiterSlack >= TimeAtCeiling(streamed)
    /\ limiterSlept <= TimeAtCeiling(streamed)
    /\ limiterSlept <= clock - ClockStart

C15_Witness ==
    /\ chunkReads = MaxTimedReads
    /\ TimeAtCeiling(streamed) > LimiterSlack
    /\ limiterSlept > 0
    /\ limiterSlept + LimiterSlack < TimeAtCeiling(streamed)
    /\ (clock - ClockStart) + LimiterSlack = TimeAtCeiling(streamed)

\* The audit_device call of entry e has ended.
Ended(e) == e.at # "running"

\* The audit_device call of entry e counted one device failure and no
\* device success.
CountedDeviceFailure(e) ==
    /\ e.after["device.failures"] = e.before["device.failures"] + 1
    /\ e.after["device.success"] = e.before["device.success"]

\* C16: every audit_device call adds one to exactly one of device.success
\* and device.failures: to device.success exactly when the enumeration ran to
\* its end.  When it raises after k keys the k objects stay counted and
\* tallied, nothing more is counted for the device, and at the end of the
\* sweep the two counters add up to the number of devices.
C16_OneDeviceOutcomePerCall ==
    /\ \A i \in 1..Len(devLog) :
        /\ Ended(devLog[i]) =>
            /\ IF devLog[i].at = "done"
               THEN CountedDeviceSuccess(devLog[i])
               ELSE CountedDeviceFailure(devLog[i])
            /\ devLog[i].after["found_objects"] >= devLog[i].before["found_objects"]
            /\ devLog[i].after["found_objects"] =
                   devLog[i].after["success"] + devLog[i].after["failures"]
        /\ i < Len(devLog) =>
            (Ended(devLog[i]) /\ devLog[i + 1].before = devLog[i].after)
    /\ SweepOver =>
        /\ Len(devLog) = Len(devices)
        /\ devLog # <<>> => stats = devLog[Len(devLog)].after
        /\ stats["device.success"] + stats["device.failures"] = Len(devices)

C16_Witness ==
    /\ SweepOver
    /\ Len(devLog) = 2
    /\ devLog[1].at = "iterKeyRange"
    /\ devLog[1].after["found_objects"] = devLog[1].before["found_objects"] + 1
    /\ devLog[2].at = "done"
    /\ stats["device.success"] = 1 /\ stats["device.failures"] = 1

\* C17: DiskFileDeviceUnavailable, wherever it is raised during the audit of
\* a device, is never the outcome of an object: it ends the audit_device call
\* with one device failure and no object failure.
C17_UnavailableIsDeviceScoped ==
    /\ cur.raised # "DiskFileDeviceUnavailable"
    /\ \A i \in 1..Len(devLog) :
        devLog[i].at = "audit_object" =>
            /\ CountedDeviceFailure(devLog[i])
            /\ devLog[i].after["failures"] = devLog[i].before["failures"]

\* Places where _audit_object raises before line 110 has compared anything.
BeforeComparison == {"locate", "open", "get_metadata", "read", "ratelimit_sleep", "int"}

\* C18: quarantine is called at most once in a verification, and only after
\* the stream was read to its end and the size was found different from the
\* Content-Length or the digest from the ETag; an object whose verification
\* raises before the comparison is a failure and is not quarantined.
C18_QuarantineOnlyOnMismatch ==
    /\ cur.quarantines <= 1
    /\ cur.quarantines = 1 =>
        /\ FullyStreamed(cur)
        /\ ~SizeMatches(cur) \/ ~DigestMatches(cur)
        /\ ~IntRaises(cur.metadata.ContentLength)
    /\ (AtResult /\ cur.at \in BeforeComparison) =>
        /\ cur.quarantines = 0
        /\ ~cur.success
        /\ cur.done => CountedFailure

C18_Witness ==
    /\ AtResult /\ cur.done
    /\ cur.at = "int"
    /\ cur.exhausted /\ cur.quarantines = 0
    /\ CountedFailure

\* C19: every chunk of the stream goes through ratelimit_sleep once, with
\* its length, before anything is compared, also when the object ends up
\* quarantined; the running time the limiter returns is handed to the next
\* call, across chunks, objects and devices of a sweep, and is zero when a
\* sweep starts.
C19_EveryChunkIsLimited ==
    /\ pc \in {"read", "compare"} => cur.limited = cur.chunks
    /\ (AtResult /\ cur.sizeCompared) => cur.limited = cur.chunks
    /\ (pc \in {"device", "sweep_end"} /\ devLog = <<>>) => counters.bytes_running_time = 0
    /\ InSweep => counters.bytes_running_time = streamed

C19_Witness ==
    /\ AtResult /\ cur.quarantines = 1 /\ cur.chunks = 1
    /\ Len(devLog) = 2 /\ Len(audited) = 2
    /\ chunkReads = 2 /\ counters.bytes_running_time = 2
    /\ sweeps = 1

\* audit_object is running for a key that _audit_device has counted as found
\* and not yet tallied.
Verifying == pc \in {"open", "metadata", "read", "compare", "tally"}

\* C20: found_objects is success plus failures whenever no object is being
\* verified, the end of a sweep and a device whose enumeration failed midway
\* included, and one more while an object is being verified.
C20_CountersAreConserved ==
    stats["found_objects"] =
        stats["success"] + stats["failures"] + (IF Verifying THEN 1 ELSE 0)

C20_Witness ==
    /\ SweepOver
    /\ \E i \in 1..Len(devLog) : devLog[i].at = "iterKeyRange"
    /\ stats["found_objects"] = 2 /\ stats["success"] = 1 /\ stats["failures"] = 1
====
